---------------------------- MODULE Spec2Model ----------------------------
(***************************************************************************)
(* Model of src/main.mjs: the keyed publish/subscribe data store          *)
(* (createDataStore) and the timeline controller / autoplay clock that    *)
(* the asset loader's completion callback builds on top of it.            *)
(*                                                                         *)
(* Four specifications share the module:                                  *)
(*   StoreSpec     the data store driven by clients whose callbacks may   *)
(*                 call on / off / set while an emission is running;      *)
(*   Spec          the application: load, slider, drag, pause, tick,      *)
(*                 destroy;                                               *)
(*   AutoplaySpec  the application left to play, with fair ticks;         *)
(*   ClampSpec     the pure function clampTime applied to drawn inputs.   *)
(***************************************************************************)
EXTENDS Integers, Sequences, FiniteSets, TLC

VARIABLES
    values,      \* createDataStore: const values = new Map()
    listeners,   \* createDataStore: const listeners = new Map(), event -> Set in insertion order
    stack,       \* emissions in progress (emit's forEach), innermost last
    fuel,        \* store calls the callbacks of the current outermost set may still make
    done,        \* the emission pass that has just returned, if the last step was its return
    reg,         \* history: the (event, callback) pairs on was called for, with no off since
    dupOn,       \* history: the last pair on was called for again while registered, until its off
    lastSet,     \* history: per key, the value of the most recent set call
    phase,                 \* assetListLoader.load: "loading", "running", "failed", "aborted"
    destroyed,             \* the application's destroy event has been handled
    overlay,               \* the loading overlay: its text, and whether it is in the document
    hooks,                 \* the handlers of the timeline that are attached
    isDragging,            \* let isDragging
    isPaused,              \* let isPaused
    autoplayAccumulator,   \* let autoplayAccumulator, in thousandths
    accumulatorExact,      \* whether the accumulator's float is exactly that many thousandths
    currentTimelineValue,  \* let currentTimelineValue, in thousandths
    sliderValue,           \* timelineSlider.value, a text
    label,                 \* timelineLabel.textContent
    pointerOpen,           \* history: a pointerdown with no pointerup or pointercancel since
    gs1,                   \* the render target: gsplat instance, component enabled, entity enabled
    last,                  \* history: the handler that ran last, what it wrote and applied
    clampIn,               \* ClampSpec: the raw value drawn
    clampOut               \* ClampSpec: clampTime of it, then clampTime of that

storeVars == <<values, listeners, stack, fuel, done, reg, dupOn, lastSet>>
loadVars == <<phase, destroyed, overlay, hooks>>
timelineVars == <<isDragging, isPaused, autoplayAccumulator, accumulatorExact,
                  currentTimelineValue, sliderValue, label, pointerOpen>>
clampVars == <<clampIn, clampOut>>
vars == <<storeVars, loadVars, timelineVars, gs1, last, clampVars>>

-----------------------------------------------------------------------------
(* JavaScript values: a number, or one of the values that are no finite    *)
(* number.  Numbers are held in thousandths (0.02 is 20).                  *)
Num(n) == [kind |-> "number", n |-> n]
Undefined == [kind |-> "undefined"]
NaN == [kind |-> "NaN"]
PosInfinity == [kind |-> "Infinity"]
NegInfinity == [kind |-> "-Infinity"]
NotANumber == [kind |-> "string"]
None == "none"

(* Bounds of StoreSpec.                                                    *)
MaxOps == 1
Keys == {"a", "b"}
Vals == {Num(1), Num(2)}
Callbacks == {"cb1", "cb2"}

-----------------------------------------------------------------------------
(* Map and Set, as the store uses them.  A Map is a function whose domain  *)
(* is the set of keys present; a Set is the sequence of its elements in    *)
(* insertion order.                                                        *)
Range(s) == {s[i] : i \in DOMAIN s}
MapSet(m, k, v) == [x \in (DOMAIN m) \cup {k} |-> IF x = k THEN v ELSE m[x]]
MapDelete(m, k) == [x \in (DOMAIN m) \ {k} |-> m[x]]
EmptyMap == [x \in {} |-> None]
SetAdd(s, x) == IF x \in Range(s) THEN s ELSE Append(s, x)
SetDelete(s, x) == SelectSeq(s, LAMBDA y : y # x)

(* set: emit(`${key}:set`, value)                                          *)
EventOf(key) == key \o ":set"
Events == {EventOf(k) : k \in Keys}

(* get: (key) => values.get(key)                                           *)
get(vals, key) == IF key \in DOMAIN vals THEN vals[key] ELSE Undefined

(* A set that emits without storing.                                      *)
StoreValueSkipped(vals, key, value) == vals

(* set, first statement: values.set(key, value)                            *)
StoreValue(vals, key, value) == MapSet(vals, key, value)

(* An on that keeps a list of callbacks instead of a Set.                 *)
onList(L, eventName, callback) ==
    MapSet(L, eventName, Append(IF eventName \in DOMAIN L THEN L[eventName] ELSE <<>>, callback))

(* on: create the Set when the event has none, then add the callback.      *)
on(L, eventName, callback) ==
    LET L1 == IF eventName \notin DOMAIN L THEN MapSet(L, eventName, <<>>) ELSE L
    IN  MapSet(L1, eventName, SetAdd(L1[eventName], callback))

(* An off that leaves the emptied Set in the Map.                         *)
offKeepEmpty(L, eventName, callback) ==
    IF eventName \notin DOMAIN L THEN L
    ELSE MapSet(L, eventName, SelectSeq(L[eventName], LAMBDA y : y # callback))

(* off: return when the event has no Set; delete the callback; drop the    *)
(* event when its Set became empty.                                        *)
off(L, eventName, callback) ==
    IF eventName \notin DOMAIN L THEN L
    ELSE LET callbacks == SetDelete(L[eventName], callback)
         IN  IF Len(callbacks) = 0 THEN MapDelete(L, eventName)
             ELSE MapSet(L, eventName, callbacks)

(* emit: const callbacks = listeners.get(eventName); if (!callbacks) return*)
Snapshot(L, eventName) == IF eventName \in DOMAIN L THEN L[eventName] ELSE <<>>


-----------------------------------------------------------------------------
(* StoreSpec: the store and its clients.                                   *)
(*                                                                         *)
(* set(key, value) stores the value and runs emit, whose                   *)
(* callbacks.forEach walks the event's Set object itself: it visits, in    *)
(* insertion order, every element that is in that Set when its turn comes. *)
(* A frame of the stack is one forEach in progress: pending holds the      *)
(* elements of its Set still to be visited, and live tells whether its Set *)
(* is still the one the listeners Map holds for the event (off drops the   *)
(* Set from the Map once it is empty; a later on makes a new one).         *)
(* The other fields are history: atCall and others are the callbacks       *)
(* registered for the event and for other events when set was called,      *)
(* dupAtCall those of dupOn then, calls the callbacks invoked so far, offd *)
(* the callbacks off was called for during the pass, seen what get(key)    *)
(* returned when the running callback was entered, and overwritten whether *)
(* set was called again for the key during the pass.                       *)
Top == stack[Len(stack)]
InCallback == stack # <<>> /\ Top.running # None
CanCall == stack = <<>> \/ (InCallback /\ fuel > 0)
FuelAfterCall == IF stack = <<>> THEN fuel ELSE fuel - 1
Count(s, x) == Cardinality({i \in DOMAIN s : s[i] = x})

(* The timeline before the loader has completed, and the variables of     *)
(* ClampSpec outside it.                                                   *)
AppIdle ==
    /\ phase = "loading"
    /\ destroyed = FALSE
    /\ overlay = [text |-> "progress", attached |-> TRUE]
    /\ hooks = {}
    /\ isDragging = FALSE
    /\ isPaused = FALSE
    /\ autoplayAccumulator = 0
    /\ accumulatorExact = TRUE
    /\ currentTimelineValue = 0
    /\ sliderValue = [kind |-> "decimal", n |-> 0]
    /\ label = [tenths |-> 0]
    /\ gs1 = [instance |-> FALSE, enabled |-> TRUE, entityEnabled |-> TRUE]
    /\ pointerOpen = FALSE
    /\ last = [op |-> "none", arg |-> "none", writes |-> <<>>, applied |-> <<>>]
ClampIdle ==
    /\ clampIn = Undefined
    /\ clampOut = <<>>

(* createDataStore: both Maps start empty.                                 *)
StoreInit ==
    /\ values = EmptyMap
    /\ listeners = EmptyMap
    /\ stack = <<>>
    /\ fuel = MaxOps
    /\ done = <<>>
    /\ reg = {}
    /\ dupOn = {}
    /\ lastSet = [k \in Keys |-> Undefined]
    /\ AppIdle
    /\ ClampIdle

(* A client, or the callback that is running, calls on(eventName, callback)*)
CallOn(eventName, callback) ==
    /\ CanCall
    /\ listeners' = on(listeners, eventName, callback)
    /\ LET grew == Len(Snapshot(listeners', eventName)) > Len(Snapshot(listeners, eventName))
       IN  stack' = [i \in DOMAIN stack |->
                IF stack[i].event = eventName /\ stack[i].live /\ grew
                THEN [stack[i] EXCEPT !.pending = Append(@, callback)]
                ELSE stack[i]]
    /\ reg' = reg \cup {<<eventName, callback>>}
    /\ dupOn' = IF <<eventName, callback>> \in reg THEN {<<eventName, callback>>} ELSE dupOn
    /\ fuel' = FuelAfterCall
    /\ done' = <<>>
    /\ UNCHANGED <<values, lastSet, loadVars, timelineVars, gs1, last, clampVars>>

(* A client, or the callback that is running, calls off(eventName, callback)*)
CallOff(eventName, callback) ==
    /\ CanCall
    /\ listeners' = off(listeners, eventName, callback)
    /\ stack' = [i \in DOMAIN stack |->
            IF stack[i].event = eventName
            THEN [stack[i] EXCEPT
                    !.pending = IF stack[i].live
                                THEN SelectSeq(@, LAMBDA c :
                                        c \in Range(Snapshot(listeners', eventName)))
                                ELSE @,
                    !.live = @ /\ eventName \in DOMAIN listeners',
                    !.offd = @ \cup {callback}]
            ELSE stack[i]]
    /\ reg' = reg \ {<<eventName, callback>>}
    /\ dupOn' = dupOn \ {<<eventName, callback>>}
    /\ fuel' = FuelAfterCall
    /\ done' = <<>>
    /\ UNCHANGED <<values, lastSet, loadVars, timelineVars, gs1, last, clampVars>>

(* A client, or the callback that is running, calls set(key, value): the   *)
(* value is stored, then emit starts on the Set the event has now.         *)
CallSet(key, value) ==
    /\ CanCall
    /\ values' = StoreValue(values, key, value)
    /\ LET eventName == EventOf(key)
           frame == [key |-> key, val |-> value, event |-> eventName,
                     pending |-> Snapshot(listeners, eventName),
                     live |-> eventName \in DOMAIN listeners,
                     running |-> None, seen |-> Undefined,
                     atCall |-> Range(Snapshot(listeners, eventName)),
                     others |-> UNION {Range(listeners[e]) : e \in (DOMAIN listeners) \ {eventName}},
                     dupAtCall |-> {cb \in Callbacks : <<eventName, cb>> \in dupOn},
                     calls |-> <<>>, offd |-> {}, overwritten |-> FALSE]
       IN  stack' = Append([i \in DOMAIN stack |->
                               IF stack[i].key = key
                               THEN [stack[i] EXCEPT !.overwritten = TRUE]
                               ELSE stack[i]],
                           frame)
    /\ fuel' = FuelAfterCall
    /\ lastSet' = [lastSet EXCEPT ![key] = value]
    /\ done' = <<>>
    /\ UNCHANGED <<listeners, reg, dupOn, loadVars, timelineVars, gs1, last, clampVars>>

(* emit: forEach calls the next callback of its Set with the value.        *)
Invoke ==
    /\ stack # <<>>
    /\ Top.running = None
    /\ Top.pending # <<>>
    /\ stack' = [stack EXCEPT ![Len(stack)] =
                    [@ EXCEPT !.running = Head(Top.pending),
                              !.seen = get(values, Top.key),
                              !.pending = Tail(Top.pending),
                              !.calls = Append(@, Head(Top.pending))]]
    /\ done' = <<>>
    /\ UNCHANGED <<values, listeners, fuel, reg, dupOn, lastSet>>
    /\ UNCHANGED <<loadVars, timelineVars, gs1, last, clampVars>>

(* The running callback returns to forEach.                                *)
Return ==
    /\ InCallback
    /\ stack' = [stack EXCEPT ![Len(stack)] = [@ EXCEPT !.running = None]]
    /\ done' = <<>>
    /\ UNCHANGED <<values, listeners, fuel, reg, dupOn, lastSet>>
    /\ UNCHANGED <<loadVars, timelineVars, gs1, last, clampVars>>

(* emit: forEach has no element left; emit and set return.                 *)
EmitReturn ==
    /\ stack # <<>>
    /\ Top.running = None
    /\ Top.pending = <<>>
    /\ done' = <<Top>>
    /\ stack' = SubSeq(stack, 1, Len(stack) - 1)
    /\ fuel' = IF Len(stack) = 1 THEN MaxOps ELSE fuel
    /\ UNCHANGED <<values, listeners, reg, dupOn, lastSet>>
    /\ UNCHANGED <<loadVars, timelineVars, gs1, last, clampVars>>

StoreNext ==
    \/ \E e \in Events, cb \in Callbacks : CallOn(e, cb)
    \/ \E e \in Events, cb \in Callbacks : CallOff(e, cb)
    \/ \E k \in Keys, v \in Vals : CallSet(k, v)
    \/ Invoke
    \/ Return
    \/ EmitReturn

StoreSpec == StoreInit /\ [][StoreNext]_vars

-----------------------------------------------------------------------------
(* The timeline, built by the loader's completion callback.  Numbers are   *)
(* in thousandths: TIMELINE_STEP 0.02 is 20, TIMELINE_MAX 2 is 2000.       *)
TIMELINE_MIN == 0
TIMELINE_MAX == 2000
TIMELINE_STEP == 20
SEGMENT_DURATION == 2000
SEGMENT_MAX == SEGMENT_DURATION - TIMELINE_STEP
AUTOPLAY_INTERVAL == TIMELINE_STEP
TimelineKey == "timeline.uTime"

(* Bounds of Spec: the most autoplay intervals a tick may find accumulated,*)
(* the elapsed times a tick brings, the texts the slider may hold and the  *)
(* states of the render target (at most one of its three conditions fails).*)
MaxIntervals == 2
Dts == {0, 20, 40, 80}
Decimal(n) == [kind |-> "decimal", n |-> n]
Text(t) == [kind |-> "text", s |-> t]
SliderTexts ==
    {Decimal(n) : n \in {-500, 13, 1000, 1990, 2000, 2600}}
        \cup {Text("abc"), Text("Infinity"), Text("-Infinity")}
Targets ==
    {[instance |-> i, enabled |-> c, entityEnabled |-> e] :
        <<i, c, e>> \in {<<TRUE, TRUE, TRUE>>, <<FALSE, TRUE, TRUE>>,
                         <<TRUE, FALSE, TRUE>>, <<TRUE, TRUE, FALSE>>}}

(* Number.isFinite(value)                                                  *)
IsFinite(value) == value.kind = "number"

(* pc.math.clamp(value, min, max)                                          *)
clamp(value, min, max) ==
    IF value >= max THEN max ELSE IF value <= min THEN min ELSE value

(* Math.round(a / b), b > 0.  A quotient that is exactly half-way between  *)
(* two integers is not exact in binary floating point (0.03 / 0.02 is just *)
(* below 1.5, 0.01 / 0.02 is 0.5): half tells which way it falls.          *)
IsHalfway(a, b) == (2 * a) % (2 * b) = b
round(a, b, half) ==
    IF IsHalfway(a, b) THEN (a \div b) + half ELSE (2 * a + b) \div (2 * b)

(* A clampTime whose last clamp reaches TIMELINE_MAX.                      *)
clampTimeToMax(value, half) ==
    LET numericValue == IF IsFinite(value) THEN value.n ELSE TIMELINE_MIN
        clamped == clamp(numericValue, TIMELINE_MIN, TIMELINE_MAX)
    IN  clamp(round(clamped, TIMELINE_STEP, half) * TIMELINE_STEP, TIMELINE_MIN, TIMELINE_MAX)

(* A clampTime that does not snap.                                         *)
clampTimeNoSnap(value, half) ==
    LET numericValue == IF IsFinite(value) THEN value.n ELSE TIMELINE_MIN
    IN  clamp(numericValue, TIMELINE_MIN, TIMELINE_MAX - TIMELINE_STEP)

(* A clampTime that passes a value that is no finite number on.            *)
clampTimeUnchecked(value, half) ==
    IF IsFinite(value)
    THEN clamp(round(clamp(value.n, TIMELINE_MIN, TIMELINE_MAX), TIMELINE_STEP, half)
                    * TIMELINE_STEP, TIMELINE_MIN, TIMELINE_MAX - TIMELINE_STEP)
    ELSE -1

(* A clampTime that rounds the quotient after adding the half itself.      *)
clampTimeBiased(value, half) ==
    LET numericValue == IF IsFinite(value) THEN value.n ELSE TIMELINE_MIN
        clamped == clamp(numericValue, TIMELINE_MIN, TIMELINE_MAX)
        snapped == ((clamped \div TIMELINE_STEP) + 1) * TIMELINE_STEP
    IN  clamp(snapped, TIMELINE_MIN, TIMELINE_MAX - TIMELINE_STEP)

(* clampTime                                                               *)
clampTime(value, half) ==
    LET numericValue == IF IsFinite(value) THEN value.n ELSE TIMELINE_MIN
        clamped == clamp(numericValue, TIMELINE_MIN, TIMELINE_MAX)
        snapped == round(clamped, TIMELINE_STEP, half) * TIMELINE_STEP
    IN  clamp(snapped, TIMELINE_MIN, TIMELINE_MAX - TIMELINE_STEP)

(* The ways the quotient of clampTime(value) may fall.                     *)
Halves(value) ==
    IF IsFinite(value)
            /\ IsHalfway(clamp(value.n, TIMELINE_MIN, TIMELINE_MAX), TIMELINE_STEP)
    THEN {0, 1} ELSE {1}

(* snapSegmentValue                                                        *)
snapSegmentValue(value) ==
    round(clamp(value, TIMELINE_MIN, SEGMENT_MAX), TIMELINE_STEP, 1) * TIMELINE_STEP

(* An applyDynamicToEntity that checks the instance alone.                 *)
applyDynamicToEntityInstanceOnly(entity, value) ==
    IF ~entity.instance THEN <<>> ELSE <<value>>

(* applyDynamicToEntity: the calls of instance.applyDynamicState it makes. *)
applyDynamicToEntity(entity, value) ==
    IF ~entity.instance \/ ~entity.enabled \/ ~entity.entityEnabled
    THEN <<>>
    ELSE <<value>>

(* updatePlaybackState                                                     *)
updatePlaybackState(timelineValue) ==
    applyDynamicToEntity(gs1, snapSegmentValue(timelineValue))

(* syncSliderValue: value.toFixed(2) and `${(value * 2).toFixed(1)}s`      *)
toFixed2(value) == Decimal(10 * ((value + 5) \div 10))
labelText(value) == [tenths |-> (2 * value + 50) \div 100]

(* parseFloat(timelineSlider.value)                                        *)
parseFloat(text) ==
    IF text.kind = "decimal" THEN Num(text.n)
    ELSE IF text.s = "Infinity" THEN PosInfinity
    ELSE IF text.s = "-Infinity" THEN NegInfinity
    ELSE NaN

(* data.set('timeline.uTime', value) with the listeners L while the slider *)
(* holds text: the value is stored and emit calls timelineHandler, the one *)
(* callback the application registers, when it is in the event's Set:      *)
(* applyTimelineValue(value).                                              *)
Subscribed(L) == "timelineHandler" \in Range(Snapshot(L, EventOf(TimelineKey)))
Applied(L, value, half) ==
    IF Subscribed(L) THEN updatePlaybackState(clampTime(value, half)) ELSE <<>>
TimelineWrite(L, text, value, half) ==
    /\ values' = StoreValue(values, TimelineKey, value)
    /\ IF Subscribed(L)
       THEN /\ currentTimelineValue' = clampTime(value, half)
            /\ sliderValue' = toFixed2(currentTimelineValue')
            /\ label' = labelText(currentTimelineValue')
       ELSE /\ sliderValue' = text
            /\ UNCHANGED <<currentTimelineValue, label>>

Handled(op, arg, writes, applied) ==
    last' = [op |-> op, arg |-> arg, writes |-> writes, applied |-> applied]
StoreIdle == UNCHANGED <<stack, fuel, done, reg, dupOn, lastSet>>

(* The state before assetListLoader.load has called back.                  *)
Init ==
    /\ values = EmptyMap
    /\ listeners = EmptyMap
    /\ stack = <<>>
    /\ fuel = MaxOps
    /\ done = <<>>
    /\ reg = {}
    /\ dupOn = {}
    /\ lastSet = [k \in Keys |-> Undefined]
    /\ AppIdle
    /\ ClampIdle

-----------------------------------------------------------------------------
(* Spec: the application.                                                  *)

(* assetListLoader.load's callback without an error: the overlay goes, the *)
(* application starts, the timeline is created with its handlers, and the  *)
(* initial time is set.  The entity is created with whatever the asset     *)
(* gave it.                                                                *)
LoadSuccess ==
    /\ phase = "loading"
    /\ phase' = "running"
    /\ overlay' = [overlay EXCEPT !.attached = FALSE]
    /\ gs1' \in {t \in Targets : t.enabled /\ t.entityEnabled}
    /\ isDragging' = FALSE
    /\ pointerOpen' = FALSE
    /\ autoplayAccumulator' = 0
    /\ accumulatorExact' = TRUE
    /\ isPaused' = FALSE
    /\ listeners' = on(listeners, EventOf(TimelineKey), "timelineHandler")
    /\ hooks' = {"click", "input", "drag", "update", "destroy"}
    /\ LET initialTime == Num(TIMELINE_MIN)
       IN  /\ TimelineWrite(listeners', Decimal(TIMELINE_MIN), initialTime, 1)
           /\ Handled("load", "none", <<initialTime>>,
                      IF Subscribed(listeners')
                      THEN applyDynamicToEntity(gs1', snapSegmentValue(clampTime(initialTime, 1)))
                      ELSE <<>>)
    /\ UNCHANGED <<destroyed, clampVars>>
    /\ StoreIdle

(* The callback without an error on an application that was destroyed      *)
(* while loading: app.start() is the engine's, and may throw there; the    *)
(* callback then ends after loadingOverlay.destroy().                      *)
LoadSuccessStartThrows ==
    /\ phase = "loading"
    /\ destroyed
    /\ phase' = "aborted"
    /\ overlay' = [overlay EXCEPT !.attached = FALSE]
    /\ Handled("load", "throws", <<>>, <<>>)
    /\ UNCHANGED <<values, listeners, destroyed, hooks, timelineVars, gs1, clampVars>>
    /\ StoreIdle

(* A callback whose error branch does not return.                          *)
LoadErrorFallsThrough ==
    /\ phase = "loading"
    /\ phase' = "failed"
    /\ overlay' = [text |-> "failed", attached |-> FALSE]
    /\ gs1' \in {t \in Targets : t.enabled /\ t.entityEnabled}
    /\ isDragging' = FALSE
    /\ pointerOpen' = FALSE
    /\ autoplayAccumulator' = 0
    /\ accumulatorExact' = TRUE
    /\ isPaused' = FALSE
    /\ listeners' = on(listeners, EventOf(TimelineKey), "timelineHandler")
    /\ hooks' = {"click", "input", "drag", "update", "destroy"}
    /\ TimelineWrite(listeners', Decimal(TIMELINE_MIN), Num(TIMELINE_MIN), 1)
    /\ Handled("loadError", "none", <<Num(TIMELINE_MIN)>>, <<>>)
    /\ UNCHANGED <<destroyed, clampVars>>
    /\ StoreIdle

(* The callback with an error: loadingOverlay.setError(), return.          *)
LoadError ==
    /\ phase = "loading"
    /\ phase' = "failed"
    /\ overlay' = [overlay EXCEPT !.text = "failed"]
    /\ Handled("loadError", "none", <<>>, <<>>)
    /\ UNCHANGED <<values, listeners, destroyed, hooks, timelineVars, gs1, clampVars>>
    /\ StoreIdle

(* The application's destroy event: the loading overlay is removed, and    *)
(* the handler the load callback registered, if it did, takes the timeline *)
(* down.                                                                   *)
Destroy ==
    /\ ~destroyed
    /\ destroyed' = TRUE
    /\ overlay' = [overlay EXCEPT !.attached = FALSE]
    /\ IF "destroy" \in hooks
       THEN /\ listeners' = off(listeners, EventOf(TimelineKey), "timelineHandler")
            /\ hooks' = {}
       ELSE UNCHANGED <<listeners, hooks>>
    /\ Handled("destroy", "none", <<>>, <<>>)
    /\ UNCHANGED <<values, phase, timelineVars, gs1, clampVars>>
    /\ StoreIdle

(* The engine or the scene changes the render target: the gsplat instance  *)
(* comes or goes, the component or its entity is enabled or disabled.      *)
TargetChange ==
    /\ phase = "running"
    /\ gs1' \in Targets \ {gs1}
    /\ Handled("target", "none", <<>>, <<>>)
    /\ UNCHANGED <<values, listeners, loadVars, timelineVars, clampVars>>
    /\ StoreIdle

(* stopPointerEvent, stopMouseEvent, stopTouchEvent                        *)
DragEvents(family) ==
    CASE family = "pointer" -> {"pointerdown", "pointermove", "pointerup", "pointercancel"}
      [] family = "mouse" -> {"mousedown", "mousemove", "mouseup", "mouseleave"}
      [] family = "touch" -> {"touchstart", "touchmove", "touchend", "touchcancel"}
DragStarts == {"pointerdown", "mousedown", "touchstart"}
DragEnds == {"pointerup", "pointercancel", "mouseup", "mouseleave", "touchend", "touchcancel"}
DragKind(type) ==
    IF type \in DragStarts THEN "start" ELSE IF type \in DragEnds THEN "end" ELSE "move"
DraggingAfter(dragging, type) ==
    IF type \in DragStarts THEN TRUE
    ELSE IF type \in DragEnds THEN FALSE
    ELSE dragging
OpenAfter(open, family, type) ==
    IF family # "pointer" THEN open
    ELSE IF type \in DragStarts THEN TRUE
    ELSE IF type \in DragEnds THEN FALSE
    ELSE open
SliderEvent(family, type) ==
    /\ "drag" \in hooks
    /\ type \in DragEvents(family)
    /\ isDragging' = DraggingAfter(isDragging, type)
    /\ pointerOpen' = OpenAfter(pointerOpen, family, type)
    /\ Handled("drag", DragKind(type), <<>>, <<>>)
    /\ UNCHANGED <<values, listeners, loadVars, isPaused, autoplayAccumulator,
                   accumulatorExact, currentTimelineValue, sliderValue, label,
                   gs1, clampVars>>
    /\ StoreIdle

(* handlePlayPauseClick: setPlaybackPaused(!isPaused)                      *)
PlayPauseClick ==
    /\ "click" \in hooks
    /\ isPaused' = ~isPaused
    /\ autoplayAccumulator' = 0
    /\ accumulatorExact' = TRUE
    /\ Handled("click", "none", <<>>, <<>>)
    /\ UNCHANGED <<values, listeners, loadVars, isDragging, currentTimelineValue,
                   sliderValue, label, pointerOpen, gs1, clampVars>>
    /\ StoreIdle

(* An onSliderInput that calls applyTimelineValue itself instead of        *)
(* data.set.                                                               *)
onSliderInputDirect(text) ==
    /\ "input" \in hooks
    /\ LET value == parseFloat(text)
       IN  IF value # NaN
           THEN \E half \in Halves(value) :
                    /\ currentTimelineValue' = clampTime(value, half)
                    /\ sliderValue' = toFixed2(currentTimelineValue')
                    /\ label' = labelText(currentTimelineValue')
                    /\ Handled("input", text, <<>>, updatePlaybackState(currentTimelineValue'))
           ELSE /\ sliderValue' = text
                /\ Handled("input", text, <<>>, <<>>)
                /\ UNCHANGED <<currentTimelineValue, label>>
    /\ UNCHANGED <<values, listeners, loadVars, isDragging, isPaused, autoplayAccumulator,
                   accumulatorExact, pointerOpen, gs1, clampVars>>
    /\ StoreIdle

(* An onSliderInput that also empties the accumulator.                     *)
onSliderInputResets(text) ==
    /\ "input" \in hooks
    /\ LET value == parseFloat(text)
       IN  IF value # NaN
           THEN \E half \in Halves(value) :
                    /\ TimelineWrite(listeners, text, value, half)
                    /\ Handled("input", text, <<value>>, Applied(listeners, value, half))
           ELSE /\ sliderValue' = text
                /\ Handled("input", text, <<>>, <<>>)
                /\ UNCHANGED <<values, currentTimelineValue, label>>
    /\ autoplayAccumulator' = 0
    /\ accumulatorExact' = TRUE
    /\ UNCHANGED <<listeners, loadVars, isDragging, isPaused, pointerOpen, gs1, clampVars>>
    /\ StoreIdle

(* The slider takes the text and fires input: onSliderInput.               *)
onSliderInput(text) ==
    /\ "input" \in hooks
    /\ LET value == parseFloat(text)
       IN  IF value # NaN
           THEN \E half \in Halves(value) :
                    /\ TimelineWrite(listeners, text, value, half)
                    /\ Handled("input", text, <<value>>, Applied(listeners, value, half))
           ELSE /\ sliderValue' = text
                /\ Handled("input", text, <<>>, <<>>)
                /\ UNCHANGED <<values, currentTimelineValue, label>>
    /\ UNCHANGED <<listeners, loadVars, isDragging, isPaused, autoplayAccumulator,
                   accumulatorExact, pointerOpen, gs1, clampVars>>
    /\ StoreIdle

(* An onUpdate that assigns dt * 0.5 instead of adding it.                 *)
AccumulatedLatest(accumulator, dt) == dt \div 2

(* An onUpdate that adds dt itself.                                         *)
AccumulatedFullRate(accumulator, dt) == accumulator + dt

(* An onUpdate that compares the next value with TIMELINE_MAX.             *)
NextValueToMax(current) ==
    LET nextValue == current + TIMELINE_STEP
    IN  IF nextValue > TIMELINE_MAX THEN TIMELINE_MIN ELSE nextValue

(* onUpdate, lines 453 to 460: dt * 0.5 added, and the value after the     *)
(* current one, back at TIMELINE_MIN past the last position.               *)
Accumulated(accumulator, dt) == accumulator + dt \div 2
NextValue(current) ==
    LET nextValue == current + TIMELINE_STEP
    IN  IF nextValue > TIMELINE_MAX - TIMELINE_STEP THEN TIMELINE_MIN ELSE nextValue

(* The accumulator is a float.  Every dt of Dts is a multiple of 0.02, so  *)
(* the accumulator is nominally a multiple of 0.01; the sum or difference  *)
(* of two exact ones is exact when it is 0 or a power of two times 0.01,   *)
(* and rounded otherwise (0.01 + 0.02 - 0.02 + 0.01 is below 0.02).  An    *)
(* accumulator that is not exact and nominally equal to the interval may   *)
(* compare either way.                                                     *)
ExactNominal(n) == n \in {0, 10, 20, 40, 80, 160}
ReachesInterval(n, exact) ==
    IF n > AUTOPLAY_INTERVAL THEN {TRUE}
    ELSE IF n < AUTOPLAY_INTERVAL THEN {FALSE}
    ELSE IF exact THEN {TRUE} ELSE {TRUE, FALSE}

(* An onUpdate that accumulates also while dragging or paused.             *)
HeldNever(dragging, paused) == FALSE

(* onUpdate: if (isDragging || isPaused)                                   *)
Held(dragging, paused) == dragging \/ paused

(* The per-frame tick: onUpdate(dt).                                       *)
onUpdate(dt) ==
    /\ "update" \in hooks
    /\ ~destroyed
    /\ IF Held(isDragging, isPaused)
       THEN /\ autoplayAccumulator' = 0
            /\ accumulatorExact' = TRUE
            /\ Handled("tick", dt, <<>>, <<>>)
            /\ UNCHANGED <<values, currentTimelineValue, sliderValue, label>>
       ELSE LET sum == Accumulated(autoplayAccumulator, dt)
                sumExact == accumulatorExact /\ ExactNominal(sum)
            IN  /\ sum <= MaxIntervals * AUTOPLAY_INTERVAL
                /\ \E reached \in ReachesInterval(sum, sumExact) :
                      IF reached
                      THEN /\ autoplayAccumulator' = sum - AUTOPLAY_INTERVAL
                           /\ accumulatorExact' = (sumExact /\ ExactNominal(sum - AUTOPLAY_INTERVAL))
                           /\ LET nextValue == Num(NextValue(currentTimelineValue))
                              IN  /\ TimelineWrite(listeners, sliderValue, nextValue, 1)
                                  /\ Handled("tick", dt, <<nextValue>>,
                                             Applied(listeners, nextValue, 1))
                      ELSE /\ autoplayAccumulator' = sum
                           /\ accumulatorExact' = sumExact
                           /\ Handled("tick", dt, <<>>, <<>>)
                           /\ UNCHANGED <<values, currentTimelineValue, sliderValue, label>>
    /\ UNCHANGED <<listeners, loadVars, isDragging, isPaused, pointerOpen, gs1, clampVars>>
    /\ StoreIdle

Next ==
    \/ LoadSuccess
    \/ LoadSuccessStartThrows
    \/ LoadError
    \/ Destroy
    \/ TargetChange
    \/ \E family \in {"pointer", "mouse", "touch"} :
            \E type \in DragEvents(family) : SliderEvent(family, type)
    \/ PlayPauseClick
    \/ \E text \in SliderTexts : onSliderInput(text)
    \/ \E dt \in Dts : onUpdate(dt)

Spec == Init /\ [][Next]_vars

-----------------------------------------------------------------------------
(* AutoplaySpec: the application left to play: after the load, nothing but *)
(* ticks, and ticks with dt > 0 keep arriving.                             *)
PositiveTick == \E dt \in Dts \ {0} : onUpdate(dt)

AutoplayNext ==
    \/ LoadSuccess
    \/ \E dt \in Dts : onUpdate(dt)

AutoplaySpec == Init /\ [][AutoplayNext]_vars /\ WF_vars(PositiveTick)

-----------------------------------------------------------------------------
(* ClampSpec: clampTime applied to a drawn raw value, and again to its     *)
(* result.  The raw values are every 0.005 from -0.1 to 2.1 and the values *)
(* that are no finite number.                                              *)
ClampInputs ==
    {Num(5 * k) : k \in -20..420}
        \cup {NaN, PosInfinity, NegInfinity, NotANumber, Undefined}

ClampInit ==
    /\ values = EmptyMap
    /\ listeners = EmptyMap
    /\ stack = <<>>
    /\ fuel = MaxOps
    /\ done = <<>>
    /\ reg = {}
    /\ dupOn = {}
    /\ lastSet = [k \in Keys |-> Undefined]
    /\ AppIdle
    /\ clampIn \in ClampInputs
    /\ clampOut = <<>>

ClampOnce ==
    /\ clampOut = <<>>
    /\ \E half \in Halves(clampIn) : clampOut' = <<clampTime(clampIn, half)>>
    /\ UNCHANGED <<storeVars, loadVars, timelineVars, gs1, last, clampIn>>

ClampAgain ==
    /\ Len(clampOut) = 1
    /\ \E half \in Halves(Num(clampOut[1])) :
            clampOut' = Append(clampOut, clampTime(Num(clampOut[1]), half))
    /\ UNCHANGED <<storeVars, loadVars, timelineVars, gs1, last, clampIn>>

ClampNext == ClampOnce \/ ClampAgain

ClampSpec == ClampInit /\ [][ClampNext]_vars

-----------------------------------------------------------------------------
(* Properties of the store.                                                *)
Passes == Range(stack) \cup Range(done)
RegisteredFor(eventName) == {cb \in Callbacks : <<eventName, cb>> \in reg}

(* C1: a call set(k, v) invokes each callback registered under "k:set" at  *)
(* the moment of the call exactly once, and none registered only under     *)
(* another key's event, also when callbacks call on/off during emission.   *)
C1_FanOut ==
    \A i \in DOMAIN done :
        /\ \A cb \in done[i].atCall : Count(done[i].calls, cb) = 1
        /\ \A cb \in done[i].others \ done[i].atCall : Count(done[i].calls, cb) = 0

(* C2: a callback that a subscriber registers with on("k:set", cb2) while  *)
(* set(k, v) is emitting is not invoked in that same emission pass: every  *)
(* callback a pass invokes was registered when set was called.             *)
C2_SnapshotSemantics ==
    \A f \in Passes : Range(f.calls) \subseteq f.atCall

(* C3 as stated: inside every callback invoked by set(key, v), get(key)    *)
(* returns v; get(key) is undefined for a key never set and otherwise the  *)
(* value of the most recent set on that key.                               *)
C3_ValueBeforeSubscribers ==
    /\ \A i \in DOMAIN stack :
            stack[i].running # None => stack[i].seen = stack[i].val
    /\ \A k \in Keys : get(values, k) = lastSet[k]

(* C3 amended: a callback invoked by set(key, v) finds get(key) = v on     *)
(* entry unless set was called again for that key during the emission;     *)
(* get(key) is always the value of the most recent set on the key, and     *)
(* undefined for a key never set.                                          *)
C3_ValueBeforeSubscribersUnlessReset ==
    /\ \A i \in DOMAIN stack :
            (stack[i].running # None /\ ~stack[i].overwritten)
                => stack[i].seen = stack[i].val
    /\ \A i \in DOMAIN stack :
            stack[i].running # None => stack[i].seen # Undefined
    /\ \A k \in Keys : get(values, k) = lastSet[k]

C3_Witness ==
    \E i \in DOMAIN stack :
        /\ stack[i].running # None
        /\ ~stack[i].overwritten
        /\ stack[i].seen = stack[i].val
        /\ \E k \in Keys : k \notin DOMAIN values /\ get(values, k) = Undefined

(* C4: however many times on(e, cb) was called since the last off(e, cb),  *)
(* the Set of e holds cb once and an emission of e during which off(e, cb) *)
(* is not called invokes cb exactly once; after off(e, cb) nothing is      *)
(* delivered to cb any more, not even by an emission in progress.          *)
C4_OnIdempotent ==
    /\ \A e \in Events, cb \in Callbacks :
            Count(Snapshot(listeners, e), cb) = IF <<e, cb>> \in reg THEN 1 ELSE 0
    /\ \A i \in DOMAIN done :
            \A cb \in done[i].atCall \ done[i].offd : Count(done[i].calls, cb) = 1
    /\ \A i \in DOMAIN stack :
            Range(stack[i].pending) \subseteq RegisteredFor(stack[i].event)

C4_Witness ==
    \E i \in DOMAIN done :
        \E cb \in (done[i].dupAtCall \cap done[i].atCall) \ done[i].offd :
            Count(done[i].calls, cb) = 1

(* C5: the listener mapping holds exactly the events that have a callback  *)
(* registered and never an empty Set; off for an unknown event or an       *)
(* unregistered callback changes nothing.                                  *)
C5_ListenerCleanup ==
    \A e \in Events :
        /\ e \in DOMAIN listeners <=> RegisteredFor(e) # {}
        /\ e \in DOMAIN listeners =>
                /\ listeners[e] # <<>>
                /\ Range(listeners[e]) = RegisteredFor(e)

C5_Witness ==
    \E f \in Passes :
        /\ f.atCall # {}
        /\ f.atCall \subseteq f.offd
        /\ f.event \notin DOMAIN listeners

-----------------------------------------------------------------------------
(* Properties of the timeline.                                             *)
OnGrid(value) ==
    /\ (value - TIMELINE_MIN) % TIMELINE_STEP = 0
    /\ TIMELINE_MIN <= value
    /\ value <= TIMELINE_MAX - TIMELINE_STEP
NonFinite == {NaN, PosInfinity, NegInfinity, NotANumber, Undefined}

(* C6: once the timeline subscriber has been registered, whatever the      *)
(* slider, the tick, the pause button and the drag events do,              *)
(* currentTimelineValue is a whole multiple of STEP from MIN within        *)
(* [MIN, MAX - STEP], never MAX, and clampTime(MAX) = MAX - STEP.          *)
C6_OnGridBelowMax ==
    /\ phase = "running" =>
            /\ OnGrid(currentTimelineValue)
            /\ currentTimelineValue # TIMELINE_MAX
    /\ \A half \in Halves(Num(TIMELINE_MAX)) :
            clampTime(Num(TIMELINE_MAX), half) = TIMELINE_MAX - TIMELINE_STEP

C6_Witness ==
    /\ phase = "running"
    /\ last.op = "input"
    /\ last.arg = Decimal(TIMELINE_MAX)
    /\ last.writes = <<Num(TIMELINE_MAX)>>
    /\ currentTimelineValue = TIMELINE_MAX - TIMELINE_STEP

(* C7: clampTime(clampTime(x)) = clampTime(x) for every raw value x: in    *)
(* range, below MIN, above MAX, between grid points or no finite number.   *)
C7_ClampIdempotent ==
    Len(clampOut) = 2 => clampOut[2] = clampOut[1]

C7_Witness ==
    /\ Len(clampOut) = 2
    /\ clampIn = Num(1015)
    /\ clampOut = <<1020, 1020>>

(* C8: a value that is no finite number written to timeline.uTime makes    *)
(* currentTimelineValue MIN and nothing else (clampTime gives MIN for      *)
(* each kind of such value); a NaN parsed from the slider is not written.  *)
C8_InvalidInputBecomesMin ==
    /\ \A i \in DOMAIN last.writes :
            ~IsFinite(last.writes[i]) =>
                /\ currentTimelineValue = TIMELINE_MIN
                /\ sliderValue = Decimal(TIMELINE_MIN)
                /\ get(values, TimelineKey) = last.writes[i]
    /\ (last.op = "input" /\ parseFloat(last.arg) = NaN) => last.writes = <<>>
    /\ \A value \in NonFinite : clampTime(value, 1) = TIMELINE_MIN

C8_Witness ==
    /\ last.op = "input"
    /\ last.arg = Text("-Infinity")
    /\ last.writes = <<NegInfinity>>
    /\ currentTimelineValue = TIMELINE_MIN

(* C9: a tick, whatever its dt, that runs while isDragging or isPaused     *)
(* writes nothing to timeline.uTime, leaves currentTimelineValue as it is  *)
(* and leaves autoplayAccumulator 0.                                       *)
C9_HeldTickWritesNothing ==
    [][(last'.op = "tick" /\ (isDragging \/ isPaused)) =>
            /\ last'.writes = <<>>
            /\ values' = values
            /\ currentTimelineValue' = currentTimelineValue
            /\ autoplayAccumulator' = 0
            /\ accumulatorExact']_vars

C9_Witness ==
    /\ last.op = "tick"
    /\ last.arg = 40
    /\ isPaused
    /\ ~isDragging
    /\ last.writes = <<>>
    /\ autoplayAccumulator = 0
    /\ currentTimelineValue = 1000

(* C10: playing and not dragging, from currentTimelineValue MIN and an     *)
(* accumulator that started at 0, a tick that leaves dt * 0.5 accumulated  *)
(* below STEP writes nothing and the tick that makes it reach STEP writes  *)
(* MIN + STEP once; a tick of dt = 0.04 on an empty accumulator advances   *)
(* the value by one step and leaves the accumulator empty (0 to 0.02,      *)
(* 0.02 to 0.04).                                                          *)
C10_AutoplayStep ==
    [][(last'.op = "tick" /\ ~isDragging /\ ~isPaused /\ accumulatorExact) =>
            /\ (currentTimelineValue = TIMELINE_MIN /\ autoplayAccumulator < TIMELINE_STEP) =>
                    IF autoplayAccumulator + last'.arg \div 2 >= TIMELINE_STEP
                    THEN /\ last'.writes = <<Num(TIMELINE_MIN + TIMELINE_STEP)>>
                         /\ currentTimelineValue' = TIMELINE_MIN + TIMELINE_STEP
                    ELSE /\ last'.writes = <<>>
                         /\ currentTimelineValue' = TIMELINE_MIN
            /\ (autoplayAccumulator = 0 /\ last'.arg = 40
                    /\ currentTimelineValue \in {TIMELINE_MIN, TIMELINE_MIN + TIMELINE_STEP}) =>
                    /\ currentTimelineValue' = currentTimelineValue + TIMELINE_STEP
                    /\ last'.writes = <<Num(currentTimelineValue')>>
                    /\ autoplayAccumulator' = 0]_vars

C10_Witness ==
    /\ last.op = "tick"
    /\ last.arg = 40
    /\ ~isDragging
    /\ ~isPaused
    /\ last.writes = <<Num(2 * TIMELINE_STEP)>>
    /\ currentTimelineValue = 2 * TIMELINE_STEP
    /\ autoplayAccumulator = 0
    /\ accumulatorExact

(* C11: an autoplay step taken at currentTimelineValue = MAX - STEP writes *)
(* MIN, and currentTimelineValue becomes MIN, never MAX; taken at any      *)
(* other position p it writes p + STEP.                                    *)
C11_LoopWraparound ==
    [][(last'.op = "tick" /\ last'.writes # <<>>) =>
            /\ ~isDragging /\ ~isPaused
            /\ last'.writes =
                    <<Num(IF currentTimelineValue = TIMELINE_MAX - TIMELINE_STEP
                          THEN TIMELINE_MIN
                          ELSE currentTimelineValue + TIMELINE_STEP)>>
            /\ currentTimelineValue' = last'.writes[1].n
            /\ currentTimelineValue' # TIMELINE_MAX]_vars

C11_Witness ==
    /\ last.op = "tick"
    /\ last.writes = <<Num(TIMELINE_MIN)>>
    /\ currentTimelineValue = TIMELINE_MIN
    /\ sliderValue = Decimal(TIMELINE_MIN)

(* C12: when a tick with autoplay active returns, autoplayAccumulator is   *)
(* in [0, STEP): a tick that found k * STEP accumulated has taken k steps. *)
(* Stated for an accumulator whose float is exact.                         *)
C12_DrainLargeTick ==
    (last.op = "tick" /\ accumulatorExact) =>
        /\ 0 <= autoplayAccumulator
        /\ autoplayAccumulator < TIMELINE_STEP

(* C13: in the state right after a drag-start event on the slider and      *)
(* right after a pause toggle, autoplayAccumulator = 0.                    *)
C13_AccumulatorReset ==
    /\ (last.op = "drag" /\ last.arg = "start") => autoplayAccumulator = 0
    /\ last.op = "click" => autoplayAccumulator = 0

(* C14: between a drag-start event of an input family and the end, cancel  *)
(* or leave event of that family, no tick writes timeline.uTime, whatever  *)
(* events of the other families come in between.  Stated for the pointer   *)
(* family: between pointerdown and pointerup or pointercancel.             *)
C14_DragExcludesAutoplay ==
    (last.op = "tick" /\ pointerOpen) => last.writes = <<>>

(* C15: currentTimelineValue changes only in a handler that calls          *)
(* data.set('timeline.uTime', v), which stores v, and when a set made      *)
(* while the subscriber is registered has returned, currentTimelineValue   *)
(* is clampTime(v).                                                        *)
C15_SingleWritePath ==
    [][/\ currentTimelineValue' # currentTimelineValue =>
            /\ last'.writes # <<>>
            /\ Subscribed(listeners')
       /\ last'.writes # <<>> =>
            /\ Len(last'.writes) = 1
            /\ get(values', TimelineKey) = last'.writes[1]
            /\ Subscribed(listeners') =>
                    \E half \in Halves(last'.writes[1]) :
                        currentTimelineValue' = clampTime(last'.writes[1], half)]_vars

C15_Witness ==
    /\ last.op = "input"
    /\ last.arg = Decimal(13)
    /\ last.writes = <<Num(13)>>
    /\ get(values, TimelineKey) = Num(13)
    /\ currentTimelineValue = TIMELINE_STEP

(* C16: a write of timeline.uTime calls applyDynamicState on the target    *)
(* exactly when the target's instance exists, its component is enabled and *)
(* its entity is enabled; otherwise no call is made, and in both cases     *)
(* currentTimelineValue, the slider and the label are updated.  No handler *)
(* calls the target without a write.                                       *)
C16_RenderSinkGuard ==
    /\ last.writes = <<>> => last.applied = <<>>
    /\ (last.writes # <<>> /\ Subscribed(listeners)) =>
            /\ last.applied =
                    IF gs1.instance /\ gs1.enabled /\ gs1.entityEnabled
                    THEN <<snapSegmentValue(currentTimelineValue)>>
                    ELSE <<>>
            /\ \E half \in Halves(last.writes[1]) :
                    currentTimelineValue = clampTime(last.writes[1], half)
            /\ sliderValue = toFixed2(currentTimelineValue)
            /\ label = labelText(currentTimelineValue)

C16_Witness ==
    /\ last.op = "input"
    /\ last.arg = Decimal(1000)
    /\ gs1.instance
    /\ ~gs1.entityEnabled
    /\ last.applied = <<>>
    /\ currentTimelineValue = 1000
    /\ sliderValue = Decimal(1000)
    /\ label = labelText(1000)

(* C17: in every state after the destroy event has been handled, whether   *)
(* the load completed before it or after it, the store has no listener for *)
(* timeline.uTime:set and the tick, slider and button handlers are         *)
(* detached.                                                               *)
C17_TeardownComplete ==
    destroyed =>
        /\ ~Subscribed(listeners)
        /\ hooks = {}

(* C18: once the completion callback has received an error, the overlay    *)
(* shows the failure, and in no later state is the timeline subscriber     *)
(* registered, a timeline handler attached or timeline.uTime written; the  *)
(* timeline exists only after a completion without error.                  *)
C18_LoadFailureTerminal ==
    /\ phase = "failed" =>
            /\ overlay.text = "failed"
            /\ ~Subscribed(listeners)
            /\ hooks = {}
            /\ TimelineKey \notin DOMAIN values
    /\ (Subscribed(listeners) \/ hooks # {} \/ TimelineKey \in DOMAIN values) =>
            phase = "running"

C18_Witness ==
    /\ phase = "failed"
    /\ last.op = "destroy"
    /\ destroyed
    /\ overlay = [text |-> "failed", attached |-> FALSE]
    /\ listeners = EmptyMap

(* C19: while playback is neither paused nor dragged and ticks with dt > 0 *)
(* keep arriving, currentTimelineValue changes again and again once the    *)
(* load has completed, and every change takes it to the position after the *)
(* one it was at: MIN, MIN + STEP, ..., MAX - STEP in that order and then  *)
(* MIN again.                                                              *)
C19_AutoplayProgress ==
    /\ [][currentTimelineValue' # currentTimelineValue =>
            currentTimelineValue' = IF currentTimelineValue = TIMELINE_MAX - TIMELINE_STEP
                                    THEN TIMELINE_MIN
                                    ELSE currentTimelineValue + TIMELINE_STEP]_vars
    /\ \/ <>[](phase # "running")
       \/ []<><<currentTimelineValue' # currentTimelineValue>>_vars

C19_Witness ==
    /\ phase = "running"
    /\ ~isPaused
    /\ ~isDragging
    /\ last.op = "tick"
    /\ last.writes = <<Num(TIMELINE_MAX - TIMELINE_STEP)>>
    /\ currentTimelineValue = TIMELINE_MAX - TIMELINE_STEP

(* C20: a slider input with a numeric value v makes currentTimelineValue   *)
(* clampTime(v) whether playback is paused or not and whether a drag is in *)
(* progress or not, and leaves isPaused, isDragging and                    *)
(* autoplayAccumulator as they were.                                       *)
C20_ScrubbingIndependent ==
    [][(last'.op = "input" /\ parseFloat(last'.arg) # NaN) =>
            /\ \E half \in Halves(parseFloat(last'.arg)) :
                    currentTimelineValue' = clampTime(parseFloat(last'.arg), half)
            /\ isPaused' = isPaused
            /\ isDragging' = isDragging
            /\ autoplayAccumulator' = autoplayAccumulator
            /\ accumulatorExact' = accumulatorExact]_vars

C20_Witness ==
    /\ last.op = "input"
    /\ last.arg = Decimal(2600)
    /\ isDragging
    /\ ~isPaused
    /\ autoplayAccumulator = TIMELINE_STEP \div 2
    /\ currentTimelineValue = TIMELINE_MAX - TIMELINE_STEP

=============================================================================
